---- MODULE Spec2Model ----
(***************************************************************************)
(* The <devcon-tilt-carousel> custom element                               *)
(* (client-extensions/devcon-elements/src/devcon-tilt-carousel.ts) as a    *)
(* state machine.  One action per lifecycle callback, public method, timer *)
(* callback, DOM event listener and browser callback of the element.       *)
(*                                                                         *)
(* Elements are numbered.  1..MaxNodes are the light-DOM elements handed   *)
(* to the carousel (its projected roots and their descendants); the        *)
(* wrapper <div class="devcon-slide-wrap"> that _ensureWrap injects into   *)
(* element n is element W(n) = n + MaxNodes.                               *)
(***************************************************************************)
EXTENDS Integers, Sequences, FiniteSets, TLC

\* ------------------------------------------------------------------ bounds
MaxNodes == 4          \* light-DOM elements that ever exist
MaxListeners == 2      \* live transitionend callbacks on one slide
MaxRaf == 1            \* requestAnimationFrame callbacks pending at once
MaxKids == 3           \* children the page gives one element after first render
MaxContent == 3        \* child nodes of the slide handed to _ensureWrap
MaxCalls == 3          \* calls of _ensureWrap on that slide
MaxFetch == 2          \* fetchFragmentData calls under way at once
MaxFragments == 2      \* items in one response of the fragments API
MaxFragId == 3         \* fragment ids are 1..MaxFragId
MaxWaits == 2          \* _waitFor calls made on one page
MaxStart == 100        \* the clock (ms) up to which _waitFor is called
MaxTime == 400         \* the clock (ms) stops here
MaxTasks == 3          \* asynchronous calls of the hero under way at once

\* ------------------------------------------------------- program constants
DefaultInterval == 4000
perspective == 900
tilt == 20
intervalTime == 100

Node == 1..MaxNodes
W(n) == n + MaxNodes
ExtNode == 1..(2 * MaxNodes)
IsWrap(x) == x > MaxNodes
Intervals == {DefaultInterval, DefaultInterval \div 2}
Keys == {"ArrowRight", "ArrowLeft", "Enter"}

VARIABLES
    named,      \* elements assigned to <slot name="drop-slot-container">
    dflt,       \* elements assigned to the default <slot>
    kids,       \* kids[n]: the content element children of element n
    nextId,     \* the next unused element number
    el,         \* el[x]: inline style, classes, attributes, listeners of x
    host,       \* custom properties set on the host element's style
    autoplay,   \* @property autoplay
    interval,   \* @property interval
    idx,        \* this._idx
    timer,      \* this._timer (0: undefined)
    timers,     \* the window's live interval timers: [id, period]
    obs,        \* this._resizeObs: exists, the closure it runs, its targets
    rafQ,       \* pending requestAnimationFrame callbacks, in order
    connected,  \* the host is in the document
    keydown,    \* this._onKeydown is registered on the host
    phase,      \* "new", "pending" (first update scheduled), "updated"
    last,       \* the handler that ran last, with what it was given
    emitted,    \* the events that handler dispatched, in order
    trail,      \* the advances made since the slide set last changed
    detected,   \* what mode detection gave at first render
    tree,       \* a slide's childNodes under _ensureWrap (SpecWrap)
    viewer,     \* the <fragment-viewer> element's state (SpecViewer)
    waits,      \* the clock, the global and the _waitFor calls (SpecWait)
    hero        \* the <devcon-particles-hero> element's state (SpecHero)

vars == <<named, dflt, kids, nextId, el, host, autoplay, interval, idx, timer,
          timers, obs, rafQ, connected, keydown, phase, last, emitted, trail,
          detected, tree, viewer, waits, hero>>

dom == <<named, dflt, kids, nextId>>
other == <<detected, tree, viewer, waits, hero>>

\* ------------------------------------------------------------ element state
tf(x, deg) == [p |-> perspective, x |-> x, deg |-> deg]
NoTf == [p |-> 0, x |-> "", deg |-> 0]
TfCenter == tf("0", 0)
TfRight == tf("100%", 0 - tilt)
TfLeft == tf("-70%", tilt)

Blank ==
    [zIndex |-> "", opacity |-> "", aria |-> "", cls |-> {}, wrap |-> FALSE,
     onEnd |-> 0, tf |-> NoTf, origin |-> "",
     running |-> FALSE, framed |-> FALSE, minH |-> 0]

NoClosure == [parent |-> 0, active |-> 0]
NoObserver == [exists |-> FALSE, cb |-> NoClosure, targets |-> {}, made |-> 0]
NoEvent == <<>>

\* --------------------------------------------------------------- DOM reads
\* Element.children of x: a wrapped slide has its wrapper as only child, a
\* wrapper has the slide's content.
children(x) ==
    IF IsWrap(x) THEN kids[x - MaxNodes]
    ELSE IF el[x].wrap THEN <<W(x)>>
    ELSE kids[x]

Range(s) == {s[i] : i \in DOMAIN s}

RECURSIVE Below(_)
Below(n) == {n} \cup UNION {Below(c) : c \in Range(kids[n])}

Attached == UNION {Below(r) : r \in Range(named) \cup Range(dflt)}

\* getBoundingClientRect().height: positive for a rendered element (every
\* element has a height of its own, here its number), 0 for one that is no
\* longer in the tree.
Height(x) ==
    LET n == IF IsWrap(x) THEN x - MaxNodes ELSE x
    IN IF n \in Attached THEN n ELSE 0

\* JavaScript numbers: NaN is a value below every index, and stays NaN.
NaN == 0 - 1000
plus(a, b) == IF a = NaN \/ b = NaN THEN NaN ELSE a + b

\* JavaScript's %: the remainder takes the sign of the dividend; x % 0 is NaN.
JsMod(a, b) ==
    IF a = NaN \/ b = NaN \/ b = 0 THEN NaN
    ELSE IF a >= 0 THEN a % b ELSE 0 - ((0 - a) % b)

\* slides[i] of a JavaScript array: 0 stands for undefined.
At(s, i) == IF i # NaN /\ (i + 1) \in DOMAIN s THEN s[i + 1] ELSE 0

\* ---------------------------------------------------------- mode detection
\* this._named and this._default: @queryAssignedElements reads the rendered
\* slot, and gives nothing while there is no render root (rendered = FALSE).
namedQuery(rendered) == IF rendered THEN named ELSE <<>>
defaultQuery(rendered) == IF rendered THEN dflt ELSE <<>>

\* _assignedRoots.  (assignedRootsDefaultFirst: the default slot preferred.)
assignedRootsDefaultFirst(rendered) ==
    IF Len(defaultQuery(rendered)) > 0 THEN defaultQuery(rendered)
    ELSE namedQuery(rendered)

assignedRoots(rendered) ==
    IF Len(namedQuery(rendered)) > 0 THEN namedQuery(rendered)
    ELSE defaultQuery(rendered)

RECURSIVE findSlideParent(_)
findSlideParent(node) ==
    IF Len(children(node)) = 1 THEN findSlideParent(children(node)[1])
    ELSE node

\* slideParent = 0 stands for the null result.
NoContainer == [slideParent |-> 0, slides |-> <<>>]

containerMode(rendered) ==
    LET roots == assignedRoots(rendered)
    IN IF Len(roots) = 0 THEN NoContainer
       ELSE IF Len(roots) = 1
            THEN LET slideParent == findSlideParent(roots[1])
                 IN [slideParent |-> slideParent,
                     slides |-> children(slideParent)]
            ELSE NoContainer

multiRootSlides(rendered) == assignedRoots(rendered)

\* What _go, firstUpdated and updated work on: container's slides when
\* _containerMode() is not null, the roots otherwise.
slidesOf(rendered) ==
    IF containerMode(rendered).slideParent # 0
    THEN containerMode(rendered).slides
    ELSE multiRootSlides(rendered)

\* Mode detection as firstUpdated, updated and _go do it: Container when
\* _containerMode() is not null, MultiRoot over _multiRootSlides() otherwise.
detect(rendered) ==
    LET c == containerMode(rendered)
    IN IF c.slideParent # 0
       THEN [mode |-> "Container", slideParent |-> c.slideParent,
             slides |-> c.slides]
       ELSE [mode |-> "MultiRoot", slideParent |-> 0,
             slides |-> multiRootSlides(rendered)]

Rendered == phase = "updated"
IsContainer == containerMode(Rendered).slideParent # 0

\* (slidesAtFirstRender: _go working on the slides found at first render.)
slidesAtFirstRender == detected.slides
slidesNow == slidesOf(Rendered)
countNow == Len(slidesNow)

\* ------------------------------------------------------------------ timers
FreshId(live) ==
    CHOOSE i \in 1..(Cardinality(live) + 1) : \A t \in live : t.id # i

\* _stop and _start on the pair (this._timer, the window's live timers).
\* (stopKeepsInterval: the handle is unset without clearInterval.)
stopKeepsInterval(T) ==
    IF T.h # 0 THEN [h |-> 0, live |-> T.live] ELSE T

stop(T) ==
    IF T.h # 0
    THEN [h |-> 0, live |-> {t \in T.live : t.id # T.h}]
    ELSE T

start(T, count, ap, iv) ==
    IF ap /\ count > 1
    THEN LET id == FreshId(T.live)
         IN [h |-> id, live |-> T.live \cup {[id |-> id, period |-> iv]}]
    ELSE T

Timers == [h |-> timer, live |-> timers]

\* ----------------------------------------------------------- style writes
\* A CSS transition starts when a transitioned property of an element that
\* is rendered in the document gets a new value; a wrapper's first transform
\* and any write while the host is out of the document start none.
setTransform(e, s, t, o, inDoc) ==
    [e EXCEPT ![W(s)].origin = o,
              ![W(s)].tf = t,
              ![W(s)].running =
                  @ \/ (inDoc /\ e[W(s)].tf # NoTf /\ e[W(s)].tf # t)]

setOpacity(e, s, v) == [e EXCEPT ![s].opacity = v]

ensureWrap(e, s) ==
    IF e[s].wrap THEN e
    ELSE [e EXCEPT ![s].wrap = TRUE, ![W(s)].origin = "50% 50%"]

\* ------------------------------------------------------------------ sizing
\* The closure `set` of _sizeToActive, run for (slideParent, active).
runSet(e, c, inDoc) ==
    LET h == IF inDoc THEN Height(c.active) ELSE 0
    IN [e EXCEPT ![c.parent].framed = TRUE,
                 ![c.parent].minH = IF h > 0 THEN h ELSE @]

RECURSIVE runAll(_, _, _)
runAll(e, q, inDoc) ==
    IF q = <<>> THEN e ELSE runAll(runSet(e, Head(q), inDoc), Tail(q), inDoc)

sizeToActiveRaf(q, parent, active) ==
    IF active = 0 THEN q
    ELSE Append(q, [parent |-> parent, active |-> active])

\* made counts the ResizeObserver instances constructed.
\* (sizeToActiveObsNoDisconnect: observe(active) without the disconnect().)
sizeToActiveObsNoDisconnect(o, parent, active) ==
    IF active = 0 THEN o
    ELSE [exists |-> TRUE,
          cb |-> IF o.exists THEN o.cb
                 ELSE [parent |-> parent, active |-> active],
          targets |-> o.targets \cup {active},
          made |-> IF o.exists THEN o.made ELSE o.made + 1]

sizeToActiveObs(o, parent, active) ==
    IF active = 0 THEN o
    ELSE [exists |-> TRUE,
          cb |-> IF o.exists THEN o.cb
                 ELSE [parent |-> parent, active |-> active],
          targets |-> {active},
          made |-> IF o.exists THEN o.made ELSE o.made + 1]

\* ------------------------------------------------------- container mode
initSlide(e, slide, i, inDoc) ==
    LET e1 == ensureWrap(e, slide)
    IN IF i = 0
       THEN LET e2 == [e1 EXCEPT ![slide].zIndex = "2"]
                e3 == setOpacity(e2, slide, "1")
                e4 == setTransform(e3, slide, TfCenter, "50% 50%", inDoc)
            IN [e4 EXCEPT ![slide].aria = "false"]
       ELSE LET e2 == [e1 EXCEPT ![slide].zIndex = "1"]
                e3 == setOpacity(e2, slide, "0")
                e4 == setTransform(e3, slide, TfRight, "100% 50%", inDoc)
            IN [e4 EXCEPT ![slide].aria = "true"]

RECURSIVE initSlides(_, _, _, _)
initSlides(e, slides, i, inDoc) ==
    IF i >= Len(slides) THEN e
    ELSE initSlides(initSlide(e, slides[i + 1], i, inDoc), slides, i + 1, inDoc)

initContainerMode(e, slides, inDoc) == initSlides(e, slides, 0, inDoc)

bringIn(e, next, inDoc) ==
    IF next = 0 THEN e
    ELSE LET e2 == [e EXCEPT ![next].zIndex = "2"]
             e3 == setOpacity(e2, next, "1")
             e4 == setTransform(e3, next, TfCenter, "50% 50%", inDoc)
         IN [e4 EXCEPT ![next].aria = "false"]

\* (hideOthersNone: the slides that are neither next nor prev left alone.)
hideOthersNone(e, slides, i, newIdx, oldIdx) == e

RECURSIVE hideOthers(_, _, _, _, _)
hideOthers(e, slides, i, newIdx, oldIdx) ==
    IF i >= Len(slides) THEN e
    ELSE LET s == slides[i + 1]
             e1 == IF i # newIdx /\ i # oldIdx
                   THEN [setOpacity([e EXCEPT ![s].zIndex = "1"], s, "0")
                            EXCEPT ![s].aria = "true"]
                   ELSE e
         IN hideOthers(e1, slides, i + 1, newIdx, oldIdx)

animateOut(e, prev, inDoc) ==
    IF prev = 0 THEN e
    ELSE LET e2 == [e EXCEPT ![prev].zIndex = "1"]
             e3 == setOpacity(e2, prev, "1")
             e4 == setTransform(e3, prev, TfLeft, "0% 50%", inDoc)
         IN [e4 EXCEPT ![prev].onEnd = @ + 1]

\* _applyStateContainer, with this._idx = newIdx; its call of _sizeToActive
\* is sizeToActiveRaf and sizeToActiveObs in Go.
applyStateContainer(e, slides, newIdx, oldIdx, inDoc) ==
    LET next == At(slides, newIdx)
        prev == At(slides, oldIdx)
        e1 == IF next # 0 THEN ensureWrap(e, next) ELSE e
        e2 == IF prev # 0 THEN ensureWrap(e1, prev) ELSE e1
        e3 == bringIn(e2, next, inDoc)
        e4 == hideOthers(e3, slides, 0, newIdx, oldIdx)
    IN animateOut(e4, prev, inDoc)

\* The onEnd listeners of slide s, run for a transitionend of property prop.
onEnd(e, s, prop) ==
    IF prop # "transform" \/ e[s].onEnd = 0 THEN e
    ELSE [setOpacity(e, s, "0") EXCEPT ![s].aria = "true",
                                               ![s].onEnd = 0]

\* ------------------------------------------------------- multi-root mode
RECURSIVE multiEach(_, _, _, _)
multiEach(e, slides, i, newIdx) ==
    IF i >= Len(slides) THEN e
    ELSE LET s == slides[i + 1]
             c1 == e[s].cls \cup {"slide"}
             c2 == IF i = newIdx THEN c1 \cup {"active"} ELSE c1 \ {"active"}
             c3 == c2 \ {"exit-left"}
             e1 == [e EXCEPT ![s].cls = c3,
                             ![s].aria = IF i # newIdx THEN "true" ELSE "false"]
         IN multiEach(e1, slides, i + 1, newIdx)

applyStateMultiRoot(e, slides, newIdx) == multiEach(e, slides, 0, newIdx)

RECURSIVE firstEach(_, _, _)
firstEach(e, slides, i) ==
    IF i >= Len(slides) THEN e
    ELSE LET s == slides[i + 1]
             e1 == [e EXCEPT ![s].cls = @ \cup {"slide"},
                             ![s].aria = IF i # 0 THEN "true" ELSE "false"]
         IN firstEach(e1, slides, i + 1)

removeExit(e, s) == IF s = 0 THEN e ELSE [e EXCEPT ![s].cls = @ \ {"exit-left"}]
addExit(e, s) == IF s = 0 THEN e ELSE [e EXCEPT ![s].cls = @ \cup {"exit-left"}]

\* (goMultiRootExitFirst: exit-left added before the classes are applied.)
goMultiRootExitFirst(e, slides, newIdx, oldIdx) ==
    applyStateMultiRoot(addExit(e, At(slides, oldIdx)), slides, newIdx)

goMultiRoot(e, slides, newIdx, oldIdx) ==
    LET e1 == removeExit(e, At(slides, oldIdx))
        e2 == applyStateMultiRoot(e1, slides, newIdx)
    IN addExit(e2, At(slides, oldIdx))

\* ------------------------------------------------------------ first state
NoKids == [x \in Node |-> <<>>]

Shape(n, d, k, used) == [named |-> n, dflt |-> d, kids |-> k, used |-> used]

\* The light DOM the element is constructed over: no content; a lone root;
\* a root whose single-child chain ends childless; a container of two
\* slides; a container of two slides behind a wrapper element; two and three
\* roots; two roots in the named slot beside content in the default slot.
InitShapes ==
    { Shape(<<>>, <<>>, NoKids, 0),
      Shape(<<>>, <<1>>, NoKids, 1),
      Shape(<<>>, <<1>>, [NoKids EXCEPT ![1] = <<2>>], 2),
      Shape(<<>>, <<1>>, [NoKids EXCEPT ![1] = <<2, 3>>], 3),
      Shape(<<>>, <<1>>, [NoKids EXCEPT ![1] = <<2>>, ![2] = <<3, 4>>], 4),
      Shape(<<>>, <<1, 2>>, NoKids, 2),
      Shape(<<>>, <<1, 2, 3>>, NoKids, 3),
      Shape(<<1, 2>>, <<3>>, NoKids, 3) }

Last(op) == [op |-> op, key |-> "", prevented |-> FALSE, had |-> FALSE]

\* The monitor of advances: the run of calls in one direction (where it
\* started, the indices it reached), and the call before the last one.
NoTrail(on) ==
    [on |-> on, dir |-> "", start |-> 0, visited |-> <<>>, lastFrom |-> 0,
     first |-> "", pairFrom |-> 0]

step(t, op, from, to, count) ==
    IF ~t.on THEN t
    ELSE LET same == t.dir = op /\ Len(t.visited) < count
         IN [on |-> TRUE,
             dir |-> op,
             start |-> IF same THEN t.start ELSE from,
             visited |-> IF same THEN Append(t.visited, to) ELSE <<to>>,
             lastFrom |-> from,
             first |-> t.dir,
             pairFrom |-> t.lastFrom]

NoDetection == [mode |-> "", slideParent |-> 0, slides |-> <<>>]
NoTree == [orig |-> <<>>, nodes |-> <<>>, returned |-> <<>>, made |-> 0]

\* FragmentViewer's field initialisers (selectedId 0: null, error "": null),
\* with the calls of connectedCallback and fetchFragmentData under way.
NoViewer ==
    [fragments |-> <<>>, selectedId |-> 0, isLoading |-> TRUE, error |-> "",
     attached |-> FALSE, starting |-> 0, pending |-> 0, clicked |-> 0,
     outcome |-> "", body |-> [has |-> FALSE, ids |-> <<>>]]

\* The page clock (ms), whether window[globalName] is set, and the calls of
\* _waitFor made so far.
NoWaits == [now |-> 0, present |-> FALSE, calls |-> <<>>]

\* The properties of <devcon-particles-hero> the model follows, as
\* constructed.
DefaultProps == [preset |-> "links", hover |-> "repulse", backdropBlur |-> FALSE]
NoOptions == [shape |-> "", links |-> FALSE, onHover |-> [enable |-> FALSE, mode |-> ""]]
NoStyle == [filter |-> ""]
NoHero ==
    [attached |-> FALSE, rendered |-> FALSE, engine |-> FALSE,
     loadedOnce |-> FALSE, props |-> DefaultProps, applied |-> NoOptions,
     style |-> NoStyle, tasks |-> <<>>, slimCalls |-> 0]

InitElement ==
    /\ el = [x \in ExtNode |-> Blank]
    /\ phase = "new"
    /\ detected = NoDetection
    /\ tree = NoTree
    /\ viewer = NoViewer
    /\ waits = NoWaits
    /\ hero = NoHero
    /\ host = [tilt |-> 0, persp |-> 0]
    /\ autoplay = TRUE
    /\ interval = DefaultInterval
    /\ idx = 0
    /\ timer = 0
    /\ timers = {}
    /\ obs = NoObserver
    /\ rafQ = <<>>
    /\ connected = FALSE
    /\ keydown = FALSE
    /\ last = Last("constructor")
    /\ emitted = NoEvent

InitDom(shapes) ==
    \E sh \in shapes :
        /\ named = sh.named
        /\ dflt = sh.dflt
        /\ kids = sh.kids
        /\ nextId = sh.used + 1

Init ==
    /\ InitDom(InitShapes)
    /\ InitElement
    /\ trail = NoTrail(FALSE)

\* ------------------------------------------------------------- operations
\* dispatchEvent(new CustomEvent('slide:change', {detail: {index}})): the
\* event, with what a listener reads at that moment of the slide that is
\* being shown at index.
Styled(e, s) ==
    IF s = 0 THEN "none"
    ELSE IF e[s].wrap
         THEN (IF e[s].opacity = "1" /\ e[s].aria = "false" /\ e[s].zIndex = "2"
                  /\ e[W(s)].tf = TfCenter
               THEN "active" ELSE "other")
         ELSE (IF "active" \in e[s].cls /\ e[s].aria = "false"
               THEN "active" ELSE "other")

\* (slideChangeEarly: the event is dispatched before the states are applied.)
slideChangeEarly(e, slides, i) ==
    [type |-> "slide:change", index |-> i, sees |-> Styled(el, At(slides, i))]

slideChange(e, slides, i) ==
    [type |-> "slide:change", index |-> i, sees |-> Styled(e, At(slides, i))]

\* `if (count <= 1) return;` and `(newIndex + count) % count` of _go.
\* (tooFewOnlyOne: the guard misses the empty carousel.  wrapIndexNoAdd: the
\* remainder of newIndex alone.  wrapIndexClamp: the index stops at the ends.
\* wrapIndexNoMod: no wrap-around.)
tooFewOnlyOne(count) == count = 1
tooFew(count) == count <= 1

wrapIndexNoAdd(newIndex, count) == JsMod(newIndex, count)
wrapIndexNoMod(newIndex, count) == newIndex
wrapIndexClamp(newIndex, count) ==
    IF newIndex >= count THEN count - 1
    ELSE IF newIndex < 0 THEN 0 ELSE newIndex
wrapIndex(newIndex, count) == JsMod(plus(newIndex, count), count)

\* _go(newIndex).  The callers give the other variables their values.
Go(newIndex) ==
    LET c == containerMode(Rendered)
        slides == slidesNow
        count == Len(slides)
        old == idx
        new == wrapIndex(newIndex, count)
    IN IF tooFew(count)
       THEN /\ UNCHANGED <<idx, el, rafQ, obs, host>>
            /\ emitted' = NoEvent
       ELSE /\ idx' = new
            /\ IF c.slideParent # 0
               THEN /\ At(slides, old) # 0 => el[At(slides, old)].onEnd < MaxListeners
                    /\ Len(rafQ) < MaxRaf
                    /\ el' = applyStateContainer(el, slides, new, old, connected)
                    /\ rafQ' = sizeToActiveRaf(rafQ, c.slideParent, At(slides, new))
                    /\ obs' = sizeToActiveObs(obs, c.slideParent, At(slides, new))
               ELSE /\ el' = goMultiRoot(el, slides, new, old)
                    /\ UNCHANGED <<rafQ, obs>>
            /\ host' = [host EXCEPT !.tilt = tilt]
            /\ emitted' = <<slideChange(el', slides, idx')>>

Advance(newIndex, op) ==
    /\ Go(newIndex)
    /\ trail' = IF emitted' = NoEvent THEN trail
                ELSE step(trail, op, idx, idx', countNow)

next ==
    /\ Advance(plus(idx, 1), "next")
    /\ last' = Last("next")
    /\ UNCHANGED <<dom, autoplay, interval, timer, timers, connected, keydown,
                   phase, other>>

prev ==
    /\ Advance(plus(idx, 0 - 1), "prev")
    /\ last' = Last("prev")
    /\ UNCHANGED <<dom, autoplay, interval, timer, timers, connected, keydown,
                   phase, other>>

\* The setInterval callback () => this.next() of a live timer.
tick ==
    /\ \E t \in timers : Advance(plus(idx, 1), "next")
    /\ last' = Last("tick")
    /\ UNCHANGED <<dom, autoplay, interval, timer, timers, connected, keydown,
                   phase, other>>

\* The method _onKeydown calls for ev.key ("": none).
\* (keyMethodSwapped: the arrows the wrong way round.)
keyMethodSwapped(k) ==
    IF k = "ArrowRight" THEN "prev" ELSE IF k = "ArrowLeft" THEN "next" ELSE ""

keyMethod(k) ==
    IF k = "ArrowRight" THEN "next" ELSE IF k = "ArrowLeft" THEN "prev" ELSE ""

\* _onKeydown, run for a keydown event on the host.
onKeydown ==
    /\ keydown
    /\ \E k \in Keys :
          /\ IF keyMethod(k) = "next" THEN Advance(plus(idx, 1), "next")
             ELSE IF keyMethod(k) = "prev" THEN Advance(plus(idx, 0 - 1), "prev")
             ELSE /\ UNCHANGED <<idx, el, rafQ, obs, host, trail>>
                  /\ emitted' = NoEvent
          /\ last' = [Last("keydown") EXCEPT
                         !.key = k,
                         !.prevented = keyMethod(k) # ""]
    /\ UNCHANGED <<dom, autoplay, interval, timer, timers, connected, keydown,
                   phase, other>>

connectedCallback ==
    /\ ~connected
    /\ connected' = TRUE
    /\ keydown' = TRUE
    /\ phase' = IF phase = "new" THEN "pending" ELSE phase
    /\ last' = Last("connected")
    /\ emitted' = NoEvent
    /\ UNCHANGED <<dom, el, host, autoplay, interval, idx, timer, timers, obs,
                   rafQ, trail, other>>

\* Leaving the document also cancels the running transitions of the host's
\* subtree (no transitionend follows).
cancelTransitions(e) ==
    [x \in ExtNode |-> [e[x] EXCEPT !.running = FALSE]]

disconnectedCallback ==
    /\ connected
    /\ connected' = FALSE
    /\ timer' = stop(Timers).h
    /\ timers' = stop(Timers).live
    /\ keydown' = FALSE
    /\ obs' = IF obs.exists THEN [obs EXCEPT !.targets = {}] ELSE obs
    /\ el' = cancelTransitions(el)
    /\ last' = [Last("disconnected") EXCEPT
                   !.had = timer # 0 /\ obs.targets # {}]
    /\ emitted' = NoEvent
    /\ UNCHANGED <<dom, host, autoplay, interval, idx, rafQ, phase, trail,
                   other>>

\* updated(changed) with autoplay or interval among the changed properties.
\* (updatedTimersNoStop: the restart without the _stop.)
updatedTimersNoStop(T, ap, iv, rendered) ==
    start(T, Len(slidesOf(rendered)), ap, iv)

\* (updatedTimersStopLast: the _stop after the _start.)
updatedTimersStopLast(T, ap, iv, rendered) ==
    stop(start(T, Len(slidesOf(rendered)), ap, iv))

updatedTimers(T, ap, iv, rendered) ==
    start(stop(T), Len(slidesOf(rendered)), ap, iv)

\* firstUpdated().
firstUpdatedEl(e, inDoc) ==
    LET c == containerMode(TRUE)
    IN IF c.slideParent # 0
       THEN initContainerMode(e, c.slides, inDoc)
       ELSE applyStateMultiRoot(
                firstEach(e, multiRootSlides(TRUE), 0), multiRootSlides(TRUE), 0)

\* The first update: render(), then firstUpdated(), then updated(changed)
\* with every property in changed.
firstUpdate ==
    /\ phase = "pending"
    /\ phase' = "updated"
    /\ LET c == containerMode(TRUE)
           T1 == start(Timers, Len(slidesOf(TRUE)), autoplay, interval)
           T2 == updatedTimers(T1, autoplay, interval, TRUE)
       IN /\ idx' = 0
          /\ el' = firstUpdatedEl(el, connected)
          /\ rafQ' = IF c.slideParent # 0
                     THEN sizeToActiveRaf(rafQ, c.slideParent, At(c.slides, 0))
                     ELSE rafQ
          /\ obs' = IF c.slideParent # 0
                    THEN sizeToActiveObs(obs, c.slideParent, At(c.slides, 0))
                    ELSE obs
          /\ timer' = T2.h
          /\ timers' = T2.live
    /\ host' = [host EXCEPT !.persp = perspective]
    /\ last' = Last("firstUpdate")
    /\ emitted' = NoEvent
    /\ trail' = NoTrail(trail.on)
    /\ detected' = detect(TRUE)
    /\ UNCHANGED <<dom, autoplay, interval, connected, keydown, tree,
                   viewer, waits, hero>>

\* A property write, and the update it causes once the element has rendered
\* (before that the value is read by the first update).
propertyChanged(op) ==
    /\ IF phase = "updated"
       THEN LET T == updatedTimers(Timers, autoplay', interval', TRUE)
            IN /\ timer' = T.h
               /\ timers' = T.live
       ELSE UNCHANGED <<timer, timers>>
    /\ last' = Last(op)
    /\ emitted' = NoEvent
    /\ UNCHANGED <<dom, el, host, idx, obs, rafQ, connected, keydown, phase,
                   trail, other>>

setAutoplay ==
    /\ autoplay' = ~autoplay
    /\ UNCHANGED interval
    /\ propertyChanged("setAutoplay")

setInterval ==
    /\ \E v \in Intervals \ {interval} : interval' = v
    /\ UNCHANGED autoplay
    /\ propertyChanged("setInterval")

\* A transitionend event reaching slide s.  The one of its wrapper's
\* transform transition comes when that transition finishes; one of another
\* property (the slide's own opacity transition, a transition of the slide's
\* content) can come at any time while the slide is in the document.
transitionEnd ==
    /\ \E s \in Node, prop \in {"transform", "opacity"} :
          /\ el[s].wrap
          /\ connected
          /\ prop = "transform" => el[W(s)].running
          /\ LET e1 == IF prop = "transform"
                       THEN [el EXCEPT ![W(s)].running = FALSE]
                       ELSE el
             IN el' = onEnd(e1, s, prop)
          /\ last' = [Last("transitionend") EXCEPT !.key = prop]
    /\ emitted' = NoEvent
    /\ UNCHANGED <<dom, host, autoplay, interval, idx, timer, timers, obs, rafQ,
                   connected, keydown, phase, trail, other>>

\* An animation frame: the pending `set` closures run in order.
frame ==
    /\ rafQ # <<>>
    /\ el' = runAll(el, rafQ, connected)
    /\ rafQ' = <<>>
    /\ last' = Last("frame")
    /\ emitted' = NoEvent
    /\ UNCHANGED <<dom, host, autoplay, interval, idx, timer, timers, obs,
                   connected, keydown, phase, trail, other>>

\* The ResizeObserver callback () => set(), for an observed element.
resize ==
    /\ obs.targets # {}
    /\ el' = runSet(el, obs.cb, connected)
    /\ last' = Last("resize")
    /\ emitted' = NoEvent
    /\ UNCHANGED <<dom, host, autoplay, interval, idx, timer, timers, obs, rafQ,
                   connected, keydown, phase, trail, other>>

\* The page changes the carousel's content after first render: it appends a
\* new element to the host (default slot) or to an element of the content
\* that holds no wrapper.  The element has no slotchange listener and no
\* MutationObserver: no code of it runs.
appendChild ==
    /\ phase = "updated"
    /\ nextId <= MaxNodes
    /\ \E p \in {0} \cup {n \in Attached : ~el[n].wrap} :
          IF p = 0
          THEN /\ dflt' = Append(dflt, nextId)
               /\ UNCHANGED <<named, kids>>
          ELSE /\ Len(kids[p]) < MaxKids
               /\ kids' = [kids EXCEPT ![p] = Append(@, nextId)]
               /\ UNCHANGED <<named, dflt>>
    /\ nextId' = nextId + 1
    /\ last' = Last("appendChild")
    /\ emitted' = NoEvent
    /\ trail' = NoTrail(trail.on)
    /\ UNCHANGED <<el, host, autoplay, interval, idx, timer, timers, obs, rafQ,
                   connected, keydown, phase, other>>

Without(s, n) == SelectSeq(s, LAMBDA x : x # n)

\* The page removes element n with its subtree; the removed elements, with
\* their styles and listeners, are never seen again.
removeChild ==
    /\ phase = "updated"
    /\ \E n \in Attached :
          /\ named' = Without(named, n)
          /\ dflt' = Without(dflt, n)
          /\ kids' = [x \in Node |->
                         IF x \in Below(n) THEN <<>> ELSE Without(kids[x], n)]
          /\ el' = [x \in ExtNode |->
                       IF x \in Below(n) \/ (IsWrap(x) /\ (x - MaxNodes) \in Below(n))
                       THEN Blank ELSE el[x]]
    /\ last' = Last("removeChild")
    /\ emitted' = NoEvent
    /\ trail' = NoTrail(trail.on)
    /\ UNCHANGED <<nextId, host, autoplay, interval, idx, timer, timers, obs,
                   rafQ, connected, keydown, phase, other>>

Next ==
    \/ connectedCallback
    \/ disconnectedCallback
    \/ firstUpdate
    \/ next
    \/ prev
    \/ tick
    \/ onKeydown
    \/ setAutoplay
    \/ setInterval
    \/ transitionEnd
    \/ frame
    \/ resize

Spec == Init /\ [][Next]_vars

\* ------------------------------------------------ content that changes
\* The same over content the page can still give one more element (and
\* take any away): a container of two slides, two roots, a lone root, and a
\* container of three slides.
RedetectShapes ==
    { Shape(<<>>, <<1>>, [NoKids EXCEPT ![1] = <<2, 3>>], MaxNodes - 1),
      Shape(<<>>, <<1, 2>>, NoKids, MaxNodes - 1),
      Shape(<<>>, <<1>>, NoKids, MaxNodes - 1),
      Shape(<<>>, <<1>>, [NoKids EXCEPT ![1] = <<2, 3, 4>>], 4) }

InitRedetect ==
    /\ InitDom(RedetectShapes)
    /\ InitElement
    /\ trail = NoTrail(FALSE)

NextRedetect ==
    \/ connectedCallback
    \/ firstUpdate
    \/ next
    \/ prev
    \/ setAutoplay
    \/ frame
    \/ appendChild
    \/ removeChild

SpecRedetect == InitRedetect /\ [][NextRedetect]_vars

\* ------------------------------------------------- walking the slides
\* The same element over a container of three slides and over two to four
\* roots, with the advances monitored.
WalkShapes ==
    { Shape(<<>>, <<1>>, [NoKids EXCEPT ![1] = <<2, 3>>], 3),
      Shape(<<>>, <<1>>, [NoKids EXCEPT ![1] = <<2, 3, 4>>], 4),
      Shape(<<>>, <<1, 2>>, NoKids, 2),
      Shape(<<>>, <<1, 2, 3>>, NoKids, 3),
      Shape(<<>>, <<1, 2, 3, 4>>, NoKids, 4) }

InitWalk ==
    /\ InitDom(WalkShapes)
    /\ InitElement
    /\ trail = NoTrail(TRUE)

NextWalk ==
    \/ connectedCallback
    \/ firstUpdate
    \/ next
    \/ prev
    \/ tick
    \/ onKeydown
    \/ transitionEnd
    \/ frame

SpecWalk == InitWalk /\ [][NextWalk]_vars

\* ------------------------------------------------------- mode detection
Asc(S) ==
    CHOOSE q \in [1..Cardinality(S) -> S] :
        \A i, j \in 1..Cardinality(S) : i < j => q[i] < q[j]

\* Every forest over at most MaxNodes elements: par[n] is -2 for an element
\* that does not exist, -1 for a root in the named slot, 0 for a root in the
\* default slot, and the parent otherwise; any of the elements may hold a
\* wrapper from an earlier pass.
InitDetect ==
    /\ \E par \in [Node -> (0 - 2)..MaxNodes], wr \in SUBSET Node :
          /\ \A n \in Node :
                /\ par[n] < n
                /\ par[n] > 0 => par[par[n]] # 0 - 2
          /\ \A n \in wr : par[n] # 0 - 2
          /\ named = Asc({n \in Node : par[n] = 0 - 1})
          /\ dflt = Asc({n \in Node : par[n] = 0})
          /\ kids = [n \in Node |-> Asc({c \in Node : par[c] = n})]
          /\ nextId = MaxNodes + 1
          /\ el = [x \in ExtNode |->
                      IF x \in wr THEN [Blank EXCEPT !.wrap = TRUE] ELSE Blank]
    /\ phase \in {"pending", "updated"}
    /\ detected = NoDetection
    /\ tree = NoTree
    /\ viewer = NoViewer
    /\ waits = NoWaits
    /\ hero = NoHero
    /\ host = [tilt |-> 0, persp |-> 0]
    /\ autoplay = TRUE
    /\ interval = DefaultInterval
    /\ idx = 0
    /\ timer = 0
    /\ timers = {}
    /\ obs = NoObserver
    /\ rafQ = <<>>
    /\ connected = TRUE
    /\ keydown = TRUE
    /\ last = Last("constructor")
    /\ emitted = NoEvent
    /\ trail = NoTrail(FALSE)

runDetect ==
    /\ detected = NoDetection
    /\ detected' = detect(Rendered)
    /\ UNCHANGED <<dom, el, host, autoplay, interval, idx, timer, timers, obs,
                   rafQ, connected, keydown, phase, last, emitted, trail, tree,
                   viewer, waits, hero>>

SpecDetect == InitDetect /\ [][runDetect]_vars

\* ------------------------------------------------- the wrapper normalizer
\* _ensureWrap on the childNodes of one slide.  A node is its identity, its
\* nodeType, its class and its own childNodes.
WrapClass == "devcon-slide-wrap"
NodeKinds == {<<"element", "">>, <<"text", "">>, <<"element", WrapClass>>}
node(id, type, cls, nodes) ==
    [id |-> id, type |-> type, cls |-> cls, nodes |-> nodes]

\* slide.querySelector(':scope > .devcon-slide-wrap'): the first child
\* element carrying the class, as an index into childNodes (0: null).
\* (existingWrapNever: the look-up finds nothing.)
existingWrapNever(nodes) == 0
existingWrap(nodes) ==
    LET hits == {i \in DOMAIN nodes :
                    nodes[i].type = "element" /\ nodes[i].cls = WrapClass}
    IN IF hits = {} THEN 0 ELSE CHOOSE i \in hits : \A j \in hits : i <= j

\* wrap.appendChild(n) for a child n of the slide: n leaves the slide's
\* childNodes and becomes the last child of the wrapper.
appendToWrap(nodes, wrapId, n) ==
    LET rest == SelectSeq(nodes, LAMBDA x : x.id # n.id)
    IN [i \in DOMAIN rest |->
           IF rest[i].id = wrapId
           THEN [rest[i] EXCEPT !.nodes = Append(@, n)]
           ELSE rest[i]]

\* kids.forEach(node => { if (node !== wrap) wrap.appendChild(node); })
RECURSIVE moveKids(_, _, _)
moveKids(nodes, list, wrapId) ==
    IF list = <<>> THEN nodes
    ELSE moveKids(IF Head(list).id # wrapId
                  THEN appendToWrap(nodes, wrapId, Head(list))
                  ELSE nodes,
                  Tail(list), wrapId)

\* _ensureWrap(slide): the slide's childNodes afterwards and the identity of
\* the element it returns; fresh is the identity createElement gives.
ensureWrapNodes(nodes, fresh) ==
    LET existing == existingWrap(nodes)
    IN IF existing # 0
       THEN [nodes |-> nodes, wrap |-> nodes[existing].id, created |-> 0]
       ELSE LET wrap == node(fresh, "element", WrapClass, <<>>)
                inserted == <<wrap>> \o nodes
            IN [nodes |-> moveKids(inserted, inserted, fresh),
                wrap |-> fresh, created |-> 1]

InitWrap ==
    /\ InitDom({Shape(<<>>, <<>>, NoKids, 0)})
    /\ InitElement
    /\ trail = NoTrail(FALSE)

\* The page gives the slide its content.
setContent ==
    /\ tree = NoTree
    /\ \E n \in 0..MaxContent : \E k \in [1..n -> NodeKinds] :
          LET content == [i \in 1..n |-> node(i, k[i][1], k[i][2], <<>>)]
          IN tree' = [NoTree EXCEPT !.orig = content, !.nodes = content]
    /\ last' = Last("setContent")
    /\ UNCHANGED <<dom, el, host, autoplay, interval, idx, timer, timers, obs,
                   rafQ, connected, keydown, phase, emitted, trail, detected,
                   viewer, waits, hero>>

callEnsureWrap ==
    /\ last.op \in {"setContent", "ensureWrap"}
    /\ Len(tree.returned) < MaxCalls
    /\ LET r == ensureWrapNodes(tree.nodes, MaxContent + tree.made + 1)
       IN tree' = [tree EXCEPT !.nodes = r.nodes,
                               !.returned = Append(@, r.wrap),
                               !.made = @ + r.created]
    /\ last' = Last("ensureWrap")
    /\ UNCHANGED <<dom, el, host, autoplay, interval, idx, timer, timers, obs,
                   rafQ, connected, keydown, phase, emitted, trail, detected,
                   viewer, waits, hero>>

NextWrap ==
    \/ setContent
    \/ callEnsureWrap

SpecWrap == InitWrap /\ [][NextWrap]_vars

\* ------------------------------------------------------ fragment viewer
\* <fragment-viewer> (client-extensions/fragment-lab/src/fragment-viewer.ts).
FragmentIds == 1..MaxFragId

\* data.items of a response: each item with its id; name tells the items of
\* one response apart.
Responses ==
    UNION {[1..n -> FragmentIds] : n \in 0..MaxFragments}
fragmentsOf(ids) == [i \in DOMAIN ids |-> [id |-> ids[i], name |-> i]]

\* this._fragments.find((f) => f.id === id), as an index (0: undefined).
\* (findAtPosition: the id taken for a position in the list.)
findAtPosition(fragments, id) == IF id \in DOMAIN fragments THEN id ELSE 0
find(fragments, id) ==
    LET hits == {i \in DOMAIN fragments : fragments[i].id = id}
    IN IF hits = {} THEN 0 ELSE CHOOSE i \in hits : \A j \in hits : i <= j

Placeholder == [id |-> 0, name |-> 0]

renderLayout(v) ==
    LET selectedFragment == find(v.fragments, v.selectedId)
    IN [screen |-> "layout",
        entries |-> [i \in DOMAIN v.fragments |->
                        [fragment |-> v.fragments[i],
                         selected |-> v.fragments[i].id = v.selectedId]],
        detail |-> IF selectedFragment # 0
                   THEN v.fragments[selectedFragment]
                   ELSE Placeholder]

Screen(name) == [screen |-> name, entries |-> <<>>, detail |-> Placeholder]

render(v) ==
    IF v.isLoading THEN Screen("loading")
    ELSE IF v.error # "" THEN Screen("error")
    ELSE IF Len(v.fragments) = 0 THEN Screen("empty")
    ELSE renderLayout(v)

handleSelect(v, id) == [v EXCEPT !.selectedId = id, !.clicked = id]

ViewerFrame ==
    UNCHANGED <<dom, el, host, autoplay, interval, idx, timer, timers, obs,
                rafQ, connected, keydown, phase, emitted, trail, detected,
                tree, waits, hero>>

\* connectedCallback up to its call of fetchFragmentData.
viewerConnected ==
    /\ ~viewer.attached
    /\ viewer.starting + viewer.pending < MaxFetch
    /\ viewer' = [viewer EXCEPT !.attached = TRUE, !.starting = @ + 1]
    /\ last' = Last("viewerConnected")
    /\ ViewerFrame

viewerDisconnected ==
    /\ viewer.attached
    /\ viewer' = [viewer EXCEPT !.attached = FALSE]
    /\ last' = Last("viewerDisconnected")
    /\ ViewerFrame

\* The messages of the errors fetchFragmentData can catch: its own two, and
\* whatever fetch() or response.json() threw (possibly with no message).
NoContextMessage == "Liferay context (authToken or siteId) not found."
ApiErrorMessage == "API Error"
Thrown == {"", "Failed to fetch", "Unexpected token"}

\* The parsed body of an OK response: with items, or without.
Bodies ==
    {[has |-> TRUE, ids |-> r] : r \in Responses}
        \cup {[has |-> FALSE, ids |-> <<>>]}

\* data.items || []
itemsOrEmpty(body) == IF body.has THEN fragmentsOf(body.ids) ELSE <<>>

\* e.message || 'Failed to fetch fragment data.'
errorMessage(m) == IF m = "" THEN "Failed to fetch fragment data." ELSE m

\* The first two statements of fetchFragmentData, its catch and its finally.
fetchBegin(v) == [v EXCEPT !.isLoading = TRUE, !.error = ""]
fetchCatch(v, m) == [v EXCEPT !.error = errorMessage(m)]
fetchFinally(v) == [v EXCEPT !.isLoading = FALSE]

\* fetchFragmentData up to its fetch, or through its catch and finally when
\* the Liferay context is missing.
fetchStart ==
    /\ viewer.starting > 0
    /\ \E context \in BOOLEAN :
          viewer' = IF context
                    THEN [fetchBegin(viewer) EXCEPT
                             !.starting = @ - 1, !.pending = @ + 1,
                             !.outcome = "sent"]
                    ELSE [fetchFinally(fetchCatch(fetchBegin(viewer),
                                                  NoContextMessage)) EXCEPT
                             !.starting = @ - 1, !.outcome = "no context"]
    /\ last' = Last("fetchStart")
    /\ ViewerFrame

\* The rest of fetchFragmentData once fetch() has settled: an OK response
\* whose body parses, a response that is not OK, or an error thrown by
\* fetch() or response.json().
fetchDone ==
    /\ viewer.pending > 0
    /\ \/ \E body \in Bodies :
             viewer' = [fetchFinally([viewer EXCEPT
                                         !.fragments = itemsOrEmpty(body)])
                           EXCEPT !.pending = @ - 1, !.outcome = "ok",
                                  !.body = body]
       \/ viewer' = [fetchFinally(fetchCatch(viewer, ApiErrorMessage))
                        EXCEPT !.pending = @ - 1, !.outcome = "not ok"]
       \/ \E m \in Thrown :
             viewer' = [fetchFinally(fetchCatch(viewer, m))
                           EXCEPT !.pending = @ - 1, !.outcome = "thrown"]
    /\ last' = Last("fetchDone")
    /\ ViewerFrame

\* A click on entry i of the list panel.
click ==
    /\ render(viewer).screen = "layout"
    /\ \E i \in DOMAIN render(viewer).entries :
          viewer' = handleSelect(viewer, render(viewer).entries[i].fragment.id)
    /\ last' = Last("click")
    /\ ViewerFrame

InitViewer ==
    /\ InitDom({Shape(<<>>, <<>>, NoKids, 0)})
    /\ InitElement
    /\ trail = NoTrail(FALSE)

NextViewer ==
    \/ viewerConnected
    \/ viewerDisconnected
    \/ fetchStart
    \/ fetchDone
    \/ click

SpecViewer == InitViewer /\ [][NextViewer]_vars

\* --------------------------------------------------- fragment viewer: _waitFor
\* The timeouts _waitFor is called with (its default, 3000, takes 32 polls
\* by the same arithmetic).
Timeouts == {0, 150}

\* One call of _waitFor: when it was made, its timeout, checkCount (which is
\* also the number of polls that ran), whether its interval is set, how its
\* promise settled and how many times resolve or reject was called.
waiter(now, timeout) ==
    [start |-> now, timeout |-> timeout, checkCount |-> 0, live |-> TRUE,
     settled |-> "", settles |-> 0]

\* new Promise(...) settles once: later calls of resolve or reject do nothing.
settle(w, how) ==
    [w EXCEPT !.settled = IF @ = "" THEN how ELSE @, !.settles = @ + 1]

\* checkCount > maxChecks, with maxChecks = timeout / intervalTime (a real
\* division): the same as checkCount * intervalTime > timeout.
overMaxChecks(w) == w.checkCount * intervalTime > w.timeout

\* The interval callback of one call.
\* (pollNoClear: the callback without its clearInterval on resolve.)
pollNoClear(w, present) ==
    IF present
    THEN [settle(w, "resolved") EXCEPT !.checkCount = @ + 1]
    ELSE IF overMaxChecks(w)
    THEN [settle(w, "rejected") EXCEPT !.live = FALSE, !.checkCount = @ + 1]
    ELSE [w EXCEPT !.checkCount = @ + 1]
poll(w, present) ==
    IF present
    THEN [settle(w, "resolved") EXCEPT !.live = FALSE, !.checkCount = @ + 1]
    ELSE IF overMaxChecks(w)
    THEN [settle(w, "rejected") EXCEPT !.live = FALSE, !.checkCount = @ + 1]
    ELSE [w EXCEPT !.checkCount = @ + 1]

WaitFrame ==
    UNCHANGED <<dom, el, host, autoplay, interval, idx, timer, timers, obs,
                rafQ, connected, keydown, phase, emitted, trail, detected,
                tree, viewer, hero>>

\* updated() calls this._waitFor('Prism'); any other caller gives a timeout.
waitFor ==
    /\ Len(waits.calls) < MaxWaits
    /\ waits.now <= MaxStart
    /\ \E timeout \in Timeouts :
          waits' = [waits EXCEPT !.calls = Append(@, waiter(waits.now, timeout))]
    /\ last' = Last("waitFor")
    /\ WaitFrame

\* The browser runs the interval callback of call i: the k-th run is never
\* earlier than k intervals after setInterval.
runInterval ==
    /\ \E i \in DOMAIN waits.calls :
          LET w == waits.calls[i]
          IN /\ w.live
             /\ waits.now >= w.start + intervalTime * (w.checkCount + 1)
             /\ waits' = [waits EXCEPT !.calls[i] = poll(w, waits.present)]
    /\ last' = Last("runInterval")
    /\ WaitFrame

\* Time passes, one polling interval at a time.
tickClock ==
    /\ waits.now < MaxTime
    /\ waits' = [waits EXCEPT !.now = @ + intervalTime]
    /\ last' = Last("tickClock")
    /\ WaitFrame

\* A script sets window[globalName], or something deletes it.
setGlobal ==
    /\ waits' = [waits EXCEPT !.present = ~@]
    /\ last' = Last("setGlobal")
    /\ WaitFrame

InitWait ==
    /\ InitDom({Shape(<<>>, <<>>, NoKids, 0)})
    /\ InitElement
    /\ trail = NoTrail(FALSE)

NextWait ==
    \/ waitFor
    \/ runInterval
    \/ tickClock
    \/ setGlobal

\* The clock advances and a due interval callback is run.
SpecWait ==
    /\ InitWait
    /\ [][NextWait]_vars
    /\ WF_vars(tickClock)
    /\ WF_vars(runInterval)

\* -------------------------------------------------------- particles hero
\* <devcon-particles-hero> (client-extensions/devcon-elements/src/
\* devcon-particles-hero.ts). Of its eight properties the model follows one
\* that sets the particles and their links, one that sets the interactivity
\* and one that only sets a style.
Presets == {"links", "stars"}
Hovers == {"repulse", "off"}
Props == [preset : Presets, hover : Hovers, backdropBlur : BOOLEAN]

\* this._options()
options(p) ==
    [shape |-> IF p.preset = "stars" THEN "star" ELSE "circle",
     links |-> p.preset = "links",
     onHover |-> IF p.hover # "off"
                 THEN [enable |-> TRUE, mode |-> p.hover]
                 ELSE [enable |-> FALSE, mode |-> ""]]

\* The styles _initParticles writes on .bg.
styles(p) ==
    [filter |-> IF p.backdropBlur THEN "blur(2px) saturate(120%)" ELSE "none"]

\* An asynchronous call under way: a _maybeLoad of connectedCallback or an
\* _initParticles, waiting for the imports, for loadSlim or for engine.load.
task(kind, pc) == [kind |-> kind, pc |-> pc]

\* The calls under way without call i, which has returned.
finished(tasks, i) ==
    [j \in 1..(Len(tasks) - 1) |-> IF j < i THEN tasks[j] ELSE tasks[j + 1]]

\* _maybeLoad up to its first await.
maybeLoad(h) ==
    IF h.engine THEN h
    ELSE [h EXCEPT !.tasks = Append(@, task("maybeLoad", "import"))]

\* _initParticles from its engine check to its call of engine.load.
applyOptions(h) ==
    [h EXCEPT !.style = styles(h.props), !.applied = options(h.props)]

\* _initParticles up to its first await that something has to answer.
initParticles(h) ==
    IF h.engine
    THEN [applyOptions(h) EXCEPT !.tasks = Append(@, task("init", "load"))]
    ELSE [h EXCEPT !.tasks = Append(@, task("init", "import"))]

\* updated(changed), changed holding one of the eight properties.
heroUpdated(h) == IF h.loadedOnce THEN initParticles(h) ELSE h

HeroFrame ==
    UNCHANGED <<dom, el, host, autoplay, interval, idx, timer, timers, obs,
                rafQ, connected, keydown, phase, emitted, trail, detected,
                tree, viewer, waits>>

\* connectedCallback; on the first connection Lit runs the first update in
\* the microtask that follows: firstUpdated, then updated.
heroConnected ==
    /\ ~hero.attached
    /\ Len(hero.tasks) + 2 <= MaxTasks
    /\ LET c == [maybeLoad(hero) EXCEPT !.attached = TRUE]
       IN hero' = IF hero.rendered THEN c
                  ELSE heroUpdated([initParticles(c) EXCEPT !.rendered = TRUE])
    /\ last' = Last("heroConnected")
    /\ HeroFrame

heroDisconnected ==
    /\ hero.attached
    /\ hero' = [hero EXCEPT !.attached = FALSE]
    /\ last' = Last("heroDisconnected")
    /\ HeroFrame

\* One of the properties is set: once the element has rendered, Lit runs
\* updated in the microtask that follows.
heroSetProperty ==
    /\ Len(hero.tasks) < MaxTasks
    /\ \E p \in Props :
          /\ p # hero.props
          /\ LET h == [hero EXCEPT !.props = p]
             IN hero' = IF hero.rendered THEN heroUpdated(h) ELSE h
    /\ last' = Last("heroSetProperty")
    /\ HeroFrame

\* The imports of one _maybeLoad are there: it calls loadSlim.
importsDone ==
    /\ \E i \in DOMAIN hero.tasks :
          /\ hero.tasks[i].pc = "import"
          /\ hero' = [hero EXCEPT !.tasks[i].pc = "loadSlim",
                                  !.slimCalls = @ + 1]
    /\ last' = Last("importsDone")
    /\ HeroFrame

\* loadSlim of one _maybeLoad is done: the engine is set, and an
\* _initParticles that awaited it goes on to engine.load.
loadSlimDone ==
    /\ \E i \in DOMAIN hero.tasks :
          /\ hero.tasks[i].pc = "loadSlim"
          /\ LET h == [hero EXCEPT !.engine = TRUE]
             IN hero' = IF hero.tasks[i].kind = "init"
                        THEN [applyOptions(h) EXCEPT !.tasks[i].pc = "load"]
                        ELSE [h EXCEPT !.tasks = finished(@, i)]
    /\ last' = Last("loadSlimDone")
    /\ HeroFrame

\* engine.load of one _initParticles is done.
engineLoadDone ==
    /\ \E i \in DOMAIN hero.tasks :
          /\ hero.tasks[i].pc = "load"
          /\ hero' = [hero EXCEPT !.loadedOnce = TRUE,
                                  !.tasks = finished(@, i)]
    /\ last' = Last("engineLoadDone")
    /\ HeroFrame

InitHero ==
    /\ InitDom({Shape(<<>>, <<>>, NoKids, 0)})
    /\ InitElement
    /\ trail = NoTrail(FALSE)

NextHero ==
    \/ heroConnected
    \/ heroDisconnected
    \/ heroSetProperty
    \/ importsDone
    \/ loadSlimDone
    \/ engineLoadDone

SpecHero == InitHero /\ [][NextHero]_vars

\* ------------------------------------------------------------------ claims
AdvanceOps == {"next", "prev", "tick", "keydown"}

\* The visual states of a container-mode slide.
IsActive(s) ==
    el[s].opacity = "1" /\ el[s].aria = "false" /\ el[W(s)].tf = TfCenter
IsExiting(s) == el[s].opacity = "1" /\ el[W(s)].tf = TfLeft
IsHidden(s) == el[s].opacity = "0" /\ el[s].aria = "true"

\* C1 (as claimed): in container mode with two or more slides, after first
\* render the slide at activeIndex is Active, at most one other slide is
\* ExitingPrev, and every other slide is Hidden.
C1_ExactlyOneActive ==
    (phase = "updated" /\ IsContainer /\ countNow >= 2) =>
        LET a == At(slidesNow, idx)
            rest == Range(slidesNow) \ {a}
        IN /\ a # 0
           /\ IsActive(a)
           /\ \A s \in rest : IsExiting(s) \/ IsHidden(s)
           /\ Cardinality({s \in rest : IsExiting(s)}) <= 1

\* C2: a run of N advances in one direction over N > 1 unchanged slides ends
\* at the index it started from and has reached each index exactly once.
C2_FullTurnReturns ==
    (trail.on /\ countNow > 1 /\ Len(trail.visited) = countNow) =>
        /\ idx = trail.start
        /\ Range(trail.visited) = 0..(countNow - 1)

C2_Witness ==
    /\ IsContainer
    /\ countNow = 3
    /\ trail.dir = "prev"
    /\ Len(trail.visited) = 3
    /\ trail.start = 1

\* C3: an advance followed by an advance in the other direction restores
\* the index (next then prev, prev then next).
C3_NextPrevInverse ==
    (trail.on /\ countNow > 1 /\ trail.first # "" /\ trail.first # trail.dir) =>
        idx = trail.pairFrom

C3_Witness ==
    /\ IsContainer
    /\ countNow = 3
    /\ trail.first = "next"
    /\ trail.dir = "prev"
    /\ idx = 2

\* C4: with fewer than two slides, next(), prev(), an arrow key or a timer
\* tick changes neither the index nor any element, listener, observer or
\* pending callback, and dispatches no event.
C4_NoOpWhenFewSlides ==
    [][(countNow <= 1 /\ last'.op \in AdvanceOps) =>
           (/\ UNCHANGED <<idx, el, obs, rafQ, host, timer, timers>>
            /\ emitted' = NoEvent)]_vars

C4_Witness ==
    /\ phase = "updated"
    /\ dflt = <<1>>
    /\ kids[1] = <<2>>
    /\ countNow = 0
    /\ last.op = "keydown"
    /\ last.key = "ArrowRight"

\* C5: an advance that changes the index dispatches exactly one slide:change
\* event, carrying the new index and dispatched when the new slide already
\* has its active state; no event is dispatched by a handler that leaves the
\* index as it was.
C5_EventPerAdvance ==
    /\ [](emitted # NoEvent =>
             /\ Len(emitted) = 1
             /\ emitted[1].index = idx
             /\ emitted[1].sees = "active"
             /\ last.op \in AdvanceOps)
    /\ [][/\ (idx' # idx /\ last'.op \in AdvanceOps) => emitted' # NoEvent
          /\ emitted' # NoEvent => idx' # idx]_vars

C5_Witness ==
    /\ IsContainer
    /\ last.op = "tick"
    /\ emitted # NoEvent
    /\ emitted[1].index = 1

\* C6 (as claimed): while the widget is attached and rendered, a timer
\* exists exactly if autoplay is on and there are two or more slides.
C6_TimerIffAutoplay ==
    (connected /\ phase = "updated") =>
        ((timers # {}) <=> (autoplay /\ countNow > 1))

\* C7: after every change of autoplay or interval the timers are: none when
\* autoplay is off or there are fewer than two slides, else exactly the one
\* this._timer names, with the current interval as period; and at all times
\* no timer runs while autoplay is off, none at a period other than interval.
C7_UpdatedRestartsTimer ==
    /\ (phase = "updated" /\ last.op \in {"setAutoplay", "setInterval"}) =>
           timers = IF autoplay /\ countNow > 1
                    THEN {[id |-> timer, period |-> interval]}
                    ELSE {}
    /\ ~autoplay => timers = {}
    /\ \A t \in timers : t.period = interval

C7_Witness ==
    /\ last.op = "setAutoplay"
    /\ autoplay
    /\ timers = {[id |-> timer, period |-> DefaultInterval \div 2]}

\* C8: right after disconnectedCallback no timer is live and this._timer is
\* unset, the observer observes nothing and the keydown listener is gone;
\* the callback changes neither the index nor any slide's state.
SlideState(e) ==
    [x \in ExtNode |-> [e[x] EXCEPT !.running = FALSE]]

C8_Teardown ==
    /\ [](last.op = "disconnected" =>
             /\ timer = 0
             /\ timers = {}
             /\ obs.targets = {}
             /\ ~keydown)
    /\ [][last'.op = "disconnected" =>
             /\ idx' = idx
             /\ SlideState(el') = SlideState(el)]_vars

C8_Witness ==
    /\ last.op = "disconnected"
    /\ last.had
    /\ idx = 1
    /\ IsContainer

\* C9 (as claimed): between disconnectedCallback and the next
\* connectedCallback no timer exists (so no tick advances the index) and the
\* observer observes nothing.
C9_QuietWhileDetached ==
    (~connected /\ phase # "new") =>
        /\ timers = {}
        /\ timer = 0
        /\ obs.targets = {}

\* C10: mode detection agrees with the reference: the named slot's elements
\* if any, else the default slot's; several roots are the slides
\* (MultiRoot); a single root gives Container, with the first node of its
\* single-child descent that has no or several children as slide parent and
\* that node's children as slides; no roots, no slides.  Container mode
\* never has exactly one slide.
RefRoots ==
    IF Len(namedQuery(Rendered)) >= 1 THEN namedQuery(Rendered)
    ELSE defaultQuery(Rendered)

IsChild(c, p) == c \in Range(children(p))

RECURSIVE OnDescent(_, _)
OnDescent(x, root) ==
    \/ x = root
    \/ \E p \in ExtNode :
          /\ IsChild(x, p)
          /\ Len(children(p)) = 1
          /\ OnDescent(p, root)

RefSlideParent(root) ==
    CHOOSE x \in ExtNode : OnDescent(x, root) /\ Len(children(x)) # 1

C10_DetectionMatchesReference ==
    detected # NoDetection =>
        /\ Len(RefRoots) > 1 =>
               detected = [mode |-> "MultiRoot", slideParent |-> 0,
                           slides |-> RefRoots]
        /\ Len(RefRoots) = 1 =>
               detected = [mode |-> "Container",
                           slideParent |-> RefSlideParent(RefRoots[1]),
                           slides |-> children(RefSlideParent(RefRoots[1]))]
        /\ Len(RefRoots) = 0 => detected.slides = <<>>
        /\ detected.mode = "Container" => Len(detected.slides) # 1

C10_Witness ==
    /\ detected.mode = "Container"
    /\ Len(named) = 1
    /\ detected.slideParent # named[1]
    /\ Len(detected.slides) = 2

\* The reference's slides over the content as it is now.
RefSlides ==
    IF Len(RefRoots) > 1 THEN RefRoots
    ELSE IF Len(RefRoots) = 1 THEN children(RefSlideParent(RefRoots[1]))
    ELSE <<>>

UpdateOps == {"setAutoplay", "setInterval"}
Advances(l) == l.op \in AdvanceOps /\ (l.op = "keydown" => l.prevented)

IsWrapper(n) == n.type = "element" /\ n.cls = WrapClass
Called == last.op = "ensureWrap"

\* What counts as the slide's original content: of a slide that comes with
\* the wrapper as its only child, the wrapper's content.
OrigContent ==
    IF Len(tree.orig) = 1 /\ IsWrapper(tree.orig[1]) THEN tree.orig[1].nodes
    ELSE tree.orig

\* C12 (as claimed): for every content of the slide, after one or more
\* calls the slide has exactly one child, the wrapper, which holds the
\* original child nodes in their order, and every call returned it.
C12_WrapIdempotent ==
    Called =>
        /\ Len(tree.nodes) = 1
        /\ IsWrapper(tree.nodes[1])
        /\ tree.nodes[1].nodes = OrigContent
        /\ \A i \in DOMAIN tree.returned : tree.returned[i] = tree.nodes[1].id

\* C12 (amended): for a slide none of whose child nodes is an element with
\* class devcon-slide-wrap, the first call creates one wrapper, the slide's
\* only child afterwards, holding the original child nodes in their order,
\* and every later call returns it and changes nothing; for a slide that has
\* such a child, every call returns the first such child and changes
\* nothing.
C12_WrapIdempotentUnmarked ==
    Called =>
        IF \A i \in DOMAIN tree.orig : ~IsWrapper(tree.orig[i])
        THEN /\ tree.made = 1
             /\ tree.nodes =
                    <<node(tree.returned[1], "element", WrapClass, tree.orig)>>
             /\ \A i \in DOMAIN tree.returned :
                    tree.returned[i] = tree.returned[1]
             /\ \A i \in DOMAIN tree.orig : tree.returned[1] # tree.orig[i].id
        ELSE /\ tree.made = 0
             /\ tree.nodes = tree.orig
             /\ \A i \in DOMAIN tree.returned :
                    /\ \E j \in DOMAIN tree.orig :
                          /\ tree.orig[j].id = tree.returned[i]
                          /\ IsWrapper(tree.orig[j])
                          /\ \A k \in 1..(j - 1) : ~IsWrapper(tree.orig[k])

C12_Witness ==
    /\ Len(tree.returned) = 3
    /\ Len(tree.orig) = 3
    /\ tree.orig[1].type = "text"
    /\ tree.orig[2].type = "element"
    /\ tree.made = 1
    /\ Len(tree.nodes) = 1

\* C13: a keydown with ArrowRight makes one step forward, with ArrowLeft one
\* step back (one event each when there are two or more slides), and both
\* are default-prevented; any other key changes nothing and is not
\* prevented; the handler runs only while the element is attached.
C13_KeyboardContract ==
    [][last'.op = "keydown" =>
          /\ connected
          /\ last'.key = "ArrowRight" =>
                /\ last'.prevented
                /\ countNow > 1 =>
                      /\ idx' = (idx + 1) % countNow
                      /\ Len(emitted') = 1
          /\ last'.key = "ArrowLeft" =>
                /\ last'.prevented
                /\ countNow > 1 =>
                      /\ idx' = (idx + countNow - 1) % countNow
                      /\ Len(emitted') = 1
          /\ last'.key \notin {"ArrowRight", "ArrowLeft"} =>
                /\ ~last'.prevented
                /\ UNCHANGED <<idx, el, obs, rafQ, host, timer, timers>>
                /\ emitted' = NoEvent]_vars

C13_Witness ==
    /\ last.op = "keydown"
    /\ last.key = "ArrowLeft"
    /\ last.prevented
    /\ countNow = 3
    /\ idx = 2
    /\ emitted # NoEvent

\* C14: a click on a list entry selects that fragment's id, and the detail
\* panel then shows a fragment with that id; whenever the layout is shown,
\* the detail panel shows the placeholder exactly if nothing is selected or
\* no loaded fragment has the selected id, and a fragment with the selected
\* id otherwise; with distinct ids at most one entry is marked selected.
DistinctIds(fs) == \A i, j \in DOMAIN fs : fs[i].id = fs[j].id => i = j
Shown == render(viewer)

C14_SelectionShowsDetail ==
    /\ last.op = "click" =>
          /\ viewer.selectedId = viewer.clicked
          /\ Shown.screen = "layout"
          /\ Shown.detail # Placeholder
          /\ Shown.detail.id = viewer.clicked
    /\ Shown.screen = "layout" =>
          /\ Shown.detail = Placeholder <=>
                \/ viewer.selectedId = 0
                \/ \A i \in DOMAIN viewer.fragments :
                      viewer.fragments[i].id # viewer.selectedId
          /\ Shown.detail # Placeholder =>
                /\ Shown.detail.id = viewer.selectedId
                /\ \E i \in DOMAIN viewer.fragments :
                      viewer.fragments[i] = Shown.detail
          /\ DistinctIds(viewer.fragments) =>
                Cardinality({i \in DOMAIN Shown.entries :
                                Shown.entries[i].selected}) <= 1

C14_Witness ==
    /\ last.op = "click"
    /\ Len(viewer.fragments) = 2
    /\ viewer.fragments[2].id = 1
    /\ viewer.fragments[1].id = 3
    /\ viewer.clicked = 1
    /\ Shown.entries[2].selected

C14_WitnessPlaceholder ==
    /\ Shown.screen = "layout"
    /\ viewer.selectedId # 0
    /\ Shown.detail = Placeholder

\* C15 (as claimed): in container mode no slide ever has more than one
\* registered onEnd callback, and a slide's callbacks are unregistered only
\* by a transitionend of the transform property.
C15_OneLiveCallback ==
    /\ [](\A s \in Node : el[s].onEnd <= 1)
    /\ [][\A s \in Node :
             el'[s].onEnd < el[s].onEnd =>
                 (last'.op = "transitionend" /\ last'.key = "transform")]_vars

\* C16: in container mode the element constructs at most one ResizeObserver;
\* the observer never observes anything but the slide at this._idx, and
\* right after first render and after every advance over two or more
\* slides it observes exactly that slide.
C16_ObserverFollowsActive ==
    /\ obs.made <= 1
    /\ (phase = "updated" /\ IsContainer) =>
          obs.targets \subseteq {At(slidesNow, idx)}
    /\ (phase = "updated" /\ IsContainer /\ countNow >= 2
          /\ (last.op = "firstUpdate" \/ Advances(last))) =>
          obs.targets = {At(slidesNow, idx)}

C16_Witness ==
    /\ IsContainer
    /\ last.op = "prev"
    /\ idx = 1
    /\ obs.made = 1
    /\ obs.targets = {At(slidesNow, 1)}
    /\ obs.cb.active = At(slidesNow, 0)

\* C17 (as claimed): in container mode a resize notification sets the slide
\* parent's minimum height from the height of the slide that is active when
\* the observer fires.
C17_ResizeMeasuresActive ==
    (phase = "updated" /\ connected /\ IsContainer /\ countNow >= 2
       /\ last.op = "resize") =>
        el[containerMode(TRUE).slideParent].minH = Height(At(slidesNow, idx))

\* C18: in multi-root mode with two or more slides, after an advance from
\* old to new the slide at new is the only one with class active, the slide
\* at old the only one with class exit-left, old and new differ, and
\* aria-hidden is "false" on the slide at new and "true" on every other.
C18_MultiRootClasses ==
    [][(phase = "updated" /\ ~IsContainer /\ countNow >= 2 /\ Advances(last')) =>
          /\ idx' # idx
          /\ \A i \in 0..(countNow - 1) :
                LET s == At(slidesNow, i)
                IN /\ "active" \in el'[s].cls <=> i = idx'
                   /\ "exit-left" \in el'[s].cls <=> i = idx
                   /\ el'[s].aria = IF i = idx' THEN "false" ELSE "true"]_vars

C18_Witness ==
    /\ ~IsContainer
    /\ countNow = 4
    /\ last.op = "prev"
    /\ idx = 3
    /\ trail.lastFrom = 0
    /\ "exit-left" \in el[At(slidesNow, 0)].cls
    /\ "active" \in el[At(slidesNow, 3)].cls

\* C19: in container mode, directly after an advance from old to new the
\* slide at new has opacity 1, z-index 2, aria-hidden false and its wrapper
\* the centre transform; the slide at old has opacity 1 and its wrapper the
\* transform 70% to the left rotated by +tilt; every other slide has
\* opacity 0 and aria-hidden true.  A transitionend of the transform
\* property reaching the slide at old next gives it opacity 0 and
\* aria-hidden true; a transitionend of another property changes nothing and
\* leaves the callbacks registered.
C19_ContainerTransition ==
    [][/\ (phase = "updated" /\ IsContainer /\ countNow >= 2 /\ Advances(last')) =>
             /\ idx' # idx
             /\ \A i \in 0..(countNow - 1) :
                   LET s == At(slidesNow, i)
                   IN /\ i = idx' =>
                            /\ el'[s].opacity = "1"
                            /\ el'[s].zIndex = "2"
                            /\ el'[s].aria = "false"
                            /\ el'[W(s)].tf =
                                   [p |-> 900, x |-> "0", deg |-> 0]
                      /\ i = idx =>
                            /\ el'[s].opacity = "1"
                            /\ el'[W(s)].tf =
                                   [p |-> 900, x |-> "-70%", deg |-> 20]
                            /\ el'[s].onEnd > 0
                      /\ (i # idx /\ i # idx') =>
                            /\ el'[s].opacity = "0"
                            /\ el'[s].aria = "true"
       /\ (trail.on /\ IsContainer /\ Advances(last)
             /\ last'.op = "transitionend") =>
             LET old == At(slidesNow, trail.lastFrom)
             IN /\ (last'.key = "transform" /\ el[W(old)].running
                       /\ ~el'[W(old)].running) =>
                      /\ el'[old].opacity = "0"
                      /\ el'[old].aria = "true"
                /\ last'.key # "transform" => el' = el]_vars

C19_Witness ==
    /\ IsContainer
    /\ countNow = 3
    /\ last.op = "transitionend"
    /\ last.key = "transform"
    /\ idx = 2
    /\ trail.lastFrom = 1
    /\ IsHidden(At(slidesNow, 1))
    /\ IsHidden(At(slidesNow, 0))
    /\ IsActive(At(slidesNow, 2))

\* C20 (as claimed): in every state after first render
\* 0 <= this._idx < slide count.
C20_IndexInRange ==
    phase = "updated" => (0 <= idx /\ idx < countNow)

\* C20 (amended): in every state after first render, the projected content
\* being what it was at first render, this._idx is 0 when there is no slide
\* and 0 <= this._idx < slide count when there is one.
C20_IndexInRangeWithSlides ==
    phase = "updated" =>
        IF countNow = 0 THEN idx = 0 ELSE (0 <= idx /\ idx < countNow)

C20_Witness ==
    /\ phase = "updated"
    /\ countNow = 3
    /\ last.op = "prev"
    /\ idx = 2

\* C21: in every state at most one interval timer is live, and a live timer
\* is the one this._timer names.
C21_AtMostOneTimer ==
    /\ Cardinality(timers) <= 1
    /\ \A t \in timers : t.id = timer

C21_Witness ==
    /\ last.op = "setInterval"
    /\ interval = DefaultInterval
    /\ connected
    /\ Cardinality(timers) = 1


\* What one step of a fetchFragmentData call does to the viewer, but for the
\* error after a success: the start clears the error and sends one request;
\* a missing context ends the call with an error, the list kept and no
\* request sent; a success replaces the list with the items of the body (none:
\* the empty list); a failure sets an error and keeps the list; every end of
\* a call leaves the loading flag false.
CallSteps ==
    /\ (last'.op = "fetchStart" /\ viewer'.outcome = "sent") =>
          /\ viewer'.error = ""
          /\ viewer'.pending = viewer.pending + 1
    /\ (last'.op = "fetchStart" /\ viewer'.outcome = "no context") =>
          /\ ~viewer'.isLoading
          /\ viewer'.error # ""
          /\ viewer'.fragments = viewer.fragments
          /\ viewer'.pending = viewer.pending
    /\ (last'.op = "fetchDone" /\ viewer'.outcome = "ok") =>
          /\ ~viewer'.isLoading
          /\ viewer'.fragments = IF viewer'.body.has
                                 THEN fragmentsOf(viewer'.body.ids)
                                 ELSE <<>>
    /\ (last'.op = "fetchDone" /\ viewer'.outcome \in {"not ok", "thrown"}) =>
          /\ ~viewer'.isLoading
          /\ viewer'.error # ""
          /\ viewer'.fragments = viewer.fragments

\* The view while loading, and with an error set.
ViewPrecedence ==
    /\ viewer.isLoading => render(viewer) = Screen("loading")
    /\ (~viewer.isLoading /\ viewer.error # "") =>
          render(viewer) = Screen("error")

\* C22 (as claimed): every fetchFragmentData call ends with the loading flag
\* false; the error is cleared when a call starts; a success replaces the
\* list with the response items (the empty list when items is absent) and
\* leaves the error null; every failure sets a non-empty error and keeps the
\* list, and a missing context sends no request; the loading view comes
\* first and a set error comes before the fragments.
C22_FetchContract ==
    /\ []ViewPrecedence
    /\ [][/\ CallSteps
          /\ (last'.op = "fetchDone" /\ viewer'.outcome = "ok") =>
                viewer'.error = ""]_vars

\* C22 (what holds): the same but for the error after a success, which is
\* the error of whichever call failed since the last start.
C22_FetchContractButError ==
    /\ []ViewPrecedence
    /\ [][CallSteps]_vars


\* What a step does to call i of _waitFor: no poll runs once it has settled; a
\* poll that finds the global resolves it and no other step does; it is
\* rejected only by a poll that does not find the global, not earlier than
\* timeout ms after the call; a settled call stays as it settled; settling
\* clears the interval.
WaitStep(i) ==
    LET w == waits.calls[i]
        x == waits'.calls[i]
        polled == x.checkCount # w.checkCount
    IN /\ polled => /\ w.settled = ""
                    /\ waits.now >= w.start + intervalTime * x.checkCount
       /\ (polled /\ waits.present) => x.settled = "resolved"
       /\ (w.settled = "" /\ x.settled = "resolved") =>
             polled /\ waits.present
       /\ (w.settled = "" /\ x.settled = "rejected") =>
             /\ polled /\ ~waits.present
             /\ waits.now - w.start >= w.timeout
       /\ w.settled # "" => x.settled = w.settled /\ x.settles = w.settles
       /\ x.settled # "" => ~x.live

\* C23: every _waitFor call settles, and exactly once: it resolves at the
\* first poll that finds the global; it is rejected only without the global,
\* not earlier than timeout ms after the call and after at most
\* timeout / 100 + 2 polls; once it has settled its interval is cleared and
\* no poll runs.
C23_WaitForSettlesOnce ==
    /\ [](\A i \in DOMAIN waits.calls :
             LET w == waits.calls[i]
             IN /\ w.settles <= 1
                /\ (w.settled # "") <=> (w.settles = 1)
                /\ w.checkCount <= w.timeout \div intervalTime + 2
                /\ w.checkCount = w.timeout \div intervalTime + 2 =>
                      w.settled # "")
    /\ [][\A i \in DOMAIN waits.calls : WaitStep(i)]_vars
    /\ \A i \in 1..MaxWaits :
          [](i \in DOMAIN waits.calls =>
                <>(i \in DOMAIN waits.calls /\ waits.calls[i].settled # ""))

C23_Witness ==
    /\ Len(waits.calls) = 2
    /\ waits.calls[1].settled = "rejected"
    /\ waits.calls[1].timeout = 150
    /\ waits.calls[2].settled = "resolved"
    /\ waits.calls[2].checkCount > 1


\* C24 (as claimed): loadSlim is called at most once for one element,
\* however the asynchronous loads interleave.
C24_LoadSlimOnce == hero.slimCalls <= 1

\* C25 (as claimed): once no asynchronous load is pending, the options last
\* given to the engine are those of the current property values, and so are
\* the styles written with them.
C25_NoChangeLost ==
    (hero.rendered /\ hero.tasks = <<>>) =>
        /\ hero.applied = options(hero.props)
        /\ hero.style = styles(hero.props)

====
